---- MODULE Spec2Model ----
(***************************************************************************)
(* Reranking orchestration of marqo: rerank_search_results, its            *)
(* applicability guard _check_searchable_fields_in_results and the merge   *)
(* step cleanup_final_reranked_results                                     *)
(* (src/marqo/s2_inference/reranking/rerank.py).                           *)
(*                                                                         *)
(* A hit is a Python dict: a function whose DOMAIN is the set of its keys. *)
(* Every field value is an opaque string; the code only copies values and  *)
(* tests keys, it never looks inside a value.                              *)
(***************************************************************************)
EXTENDS Integers, Sequences, FiniteSets

VARIABLES
    search_result,      \* the "hits" list of the result dict, mutated in place
    entry,              \* the hits as the caller built them, before any call
    before_cleanup,     \* the hits as they were when cleanup last started
    pc,                 \* position of the call in progress
    model_name,         \* argument model_name, a sequence of characters
    searchable_attributes,  \* argument searchable_attributes
    overwrite,          \* argument overwrite_original_scores_highlights
    guard,              \* what _check_searchable_fields_in_results returned
    strategy,           \* the reranker constructed by the dispatch
    invoked,            \* the strategies whose rerank() was called, in order
    after_strategy,     \* the hits as the strategy call left them
    thrown,             \* the error the strategy raised, if any
    err,                \* the error the call ended with, if any
    ret,                \* what the call returned
    cleaned             \* number of runs of cleanup_final_reranked_results

vars == <<search_result, entry, before_cleanup, pc, model_name, searchable_attributes, overwrite,
          guard, strategy, invoked, after_strategy, thrown, err, ret, cleaned>>

-----------------------------------------------------------------------------
(* Bounds *)

MaxHits == 2

MaxCleanupCalls == 2

-----------------------------------------------------------------------------
(* Result schema: the keys of ResultsFields *)

original_score == "original_score"

highlights == "highlights"

reranker_score == "reranker_score"

highlights_reranked == "highlights_reranked"

reranked_id == "reranked_id"

ScratchFields == {reranker_score, highlights_reranked, reranked_id}

UserFields == {"title", "price"}

ScoreValues == {"0.5", "0.9"}

IdValues == {"x1"}

UserValues == {"a"}

NoValue == "<absent>"

\* dict operations of Python
DictSet(d, k, v) == [f \in (DOMAIN d) \cup {k} |-> IF f = k THEN v ELSE d[f]]

DictDel(d, k) == [f \in (DOMAIN d) \ {k} |-> d[f]]

\* d.get(k), with a marker for a missing key
DictGet(d, k) == IF k \in DOMAIN d THEN d[k] ELSE NoValue

EmptyDict == [f \in {} |-> NoValue]

\* the union of two dicts with disjoint keys
DictJoin(a, b) == [f \in (DOMAIN a) \cup (DOMAIN b) |-> IF f \in DOMAIN a THEN a[f] ELSE b[f]]

\* every dict holding, for each key k of some subset of keys, a value of vals
DictsOver(keys, vals) == UNION {[D -> vals] : D \in SUBSET keys}

-----------------------------------------------------------------------------
(* cleanup_final_reranked_results *)

\* variant: an original_score already present is kept (setdefault)
promote_score_keep(result) ==
    IF reranker_score \in DOMAIN result
    THEN DictDel(IF original_score \in DOMAIN result
                 THEN result
                 ELSE DictSet(result, original_score, result[reranker_score]),
                 reranker_score)
    ELSE result

\* lines 67-69: replace original with reranked score
promote_score(result) ==
    IF reranker_score \in DOMAIN result
    THEN DictDel(DictSet(result, original_score, result[reranker_score]), reranker_score)
    ELSE result

\* variant: no presence test, highlights = result.pop(highlights_reranked, default)
promote_highlights_default(result) ==
    DictDel(DictSet(result, highlights, DictGet(result, highlights_reranked)),
            highlights_reranked)

\* lines 72-74: replace highlights with reranked highlights
promote_highlights(result) ==
    IF highlights_reranked \in DOMAIN result
    THEN DictDel(DictSet(result, highlights, result[highlights_reranked]),
                 highlights_reranked)
    ELSE result

\* variant: the internal id is left on the hit
remove_reranked_id_never(result) == result

\* lines 77-78: remove the internal id of the reranking process
remove_reranked_id(result) ==
    IF reranked_id \in DOMAIN result THEN DictDel(result, reranked_id) ELSE result

\* variant: the two score fields are swapped where the code moves one onto the other
cleanup_hit_swap(result) ==
    LET swapped == IF reranker_score \in DOMAIN result /\ original_score \in DOMAIN result
                   THEN [result EXCEPT ![original_score] = result[reranker_score],
                                       ![reranker_score] = result[original_score]]
                   ELSE promote_score(result)
    IN  remove_reranked_id(promote_highlights(swapped))

\* lines 65-78: the body of the loop, for one hit
cleanup_hit(result) == remove_reranked_id(promote_highlights(promote_score(result)))

\* variant: the hits come back in reverse order
cleanup_final_reranked_results_reversed(reranked_results) ==
    [i \in 1..Len(reranked_results) |->
        cleanup_hit(reranked_results[Len(reranked_results) + 1 - i])]

\* variant: the loop stops after the first hit
cleanup_final_reranked_results_first_only(reranked_results) ==
    [i \in 1..Len(reranked_results) |->
        IF i = 1 THEN cleanup_hit(reranked_results[i]) ELSE reranked_results[i]]

\* lines 64-78: the loop over reranked_results["hits"]; order and length are kept
cleanup_final_reranked_results(reranked_results) ==
    [i \in 1..Len(reranked_results) |-> cleanup_hit(reranked_results[i])]

-----------------------------------------------------------------------------
(* Direct calls of cleanup_final_reranked_results on arbitrary result sets *)

\* hits as cleanup may meet them: any subset of the canonical and scratch
\* fields, with or without a document field
CleanupHits ==
    {DictJoin(DictJoin(DictJoin(s, h), i), u) :
        s \in {DictJoin(a, b) : a \in DictsOver({original_score}, {"0.5"}),
                                b \in DictsOver({reranker_score}, ScoreValues)},
        h \in {DictJoin(a, b) : a \in DictsOver({highlights}, {"old"}),
                                b \in DictsOver({highlights_reranked}, {"new"})},
        i \in DictsOver({reranked_id}, IdValues),
        u \in DictsOver({"title"}, UserValues)}

\* a list of k hits drawn from S
HitLists(S, k) == [1..k -> S]

NoCall ==
    /\ entry = search_result
    /\ before_cleanup = search_result
    /\ pc = "idle"
    /\ model_name = <<>>
    /\ searchable_attributes = [kind |-> "None", items |-> <<>>]
    /\ overwrite = TRUE
    /\ guard = FALSE
    /\ strategy = "none"
    /\ invoked = <<>>
    /\ after_strategy = search_result
    /\ thrown = "none"
    /\ err = "none"
    /\ ret = "none"
    /\ cleaned = 0

InitCleanup ==
    /\ \E k \in 0..MaxHits : search_result \in HitLists(CleanupHits, k)
    /\ NoCall

CleanupCall ==
    /\ cleaned < MaxCleanupCalls
    /\ before_cleanup' = search_result
    /\ search_result' = cleanup_final_reranked_results(search_result)
    /\ cleaned' = cleaned + 1
    /\ UNCHANGED <<entry, pc, model_name, searchable_attributes, overwrite, guard,
                   strategy, invoked, after_strategy, thrown, err, ret>>

NextCleanup == CleanupCall

SpecCleanup == InitCleanup /\ [][NextCleanup]_vars

-----------------------------------------------------------------------------
(* Arguments of rerank_search_results *)

\* Python values of searchable_attributes: equal iff same type and same items
PyNone == [kind |-> "None", items |-> <<>>]

PyList(s) == [kind |-> "list", items |-> s]

PyTuple(s) == [kind |-> "tuple", items |-> s]

PyStr(s) == [kind |-> "str", items |-> s]

SearchableAttributes ==
    {PyNone, PyTuple(<<>>), PyStr(<<>>), PyTuple(<<"price">>)}
        \cup {PyList(s) : s \in {<<>>, <<"title">>, <<"price">>, <<"title", "price">>}}

\* model names, as sequences of characters
ModelNames ==
    { <<"o", "w", "l">>,
      <<"x", "O", "w", "L">>,
      <<"o", "w", "x", "l">>,
      <<"l", "w", "o">>,
      <<"x">> }

\* str.lower() on the characters in use
LowerChar(c) ==
    CASE c = "O" -> "o"
      [] c = "W" -> "w"
      [] c = "L" -> "l"
      [] c = "X" -> "x"
      [] OTHER -> c

lower(s) == [i \in 1..Len(s) |-> LowerChar(s[i])]

\* Python's  needle in hay  on strings: a contiguous occurrence
Contains(needle, hay) ==
    \E k \in 0..(Len(hay) - Len(needle)) : SubSeq(hay, k + 1, k + Len(needle)) = needle

-----------------------------------------------------------------------------
(* _check_searchable_fields_in_results *)

PyAny(l) == \E i \in 1..Len(l) : l[i]

PyAll(l) == \A i \in 1..Len(l) : l[i]

\* variant: a hit must hold every listed field
hit_has_all_fields(r, searchable_fields) ==
    PyAll([k \in 1..Len(searchable_fields.items) |-> searchable_fields.items[k] \in DOMAIN r])

\* line 56: any(s in r for s in searchable_fields)
hit_has_field(r, searchable_fields) ==
    PyAny([k \in 1..Len(searchable_fields.items) |-> searchable_fields.items[k] \in DOMAIN r])

\* lines 54-56
_check_searchable_fields_in_results(search_results, searchable_fields) ==
    IF searchable_fields = PyNone
    THEN TRUE
    ELSE LET matching == SelectSeq(search_results,
                                   LAMBDA r : hit_has_field(r, searchable_fields))
         IN  PyAny([i \in 1..Len(matching) |-> TRUE])

-----------------------------------------------------------------------------
(* The reranking strategies ReRankerText.rerank and ReRankerOwl.rerank *)

\* what a strategy writes on a hit it processes
ScratchOutputs ==
    { DictJoin([f \in {reranker_score} |-> "0.9"], [f \in {reranked_id} |-> "x1"]),
      DictJoin(DictJoin([f \in {reranker_score} |-> "0.9"], [f \in {reranked_id} |-> "x1"]),
               [f \in {highlights_reranked} |-> "new"]) }

\* dict.update
DictUpdate(d, w) == [f \in (DOMAIN d) \cup (DOMAIN w) |-> IF f \in DOMAIN w THEN w[f] ELSE d[f]]

\* a hit after the strategy: left as received, or with scratch fields written
Touched(hit) == {hit} \cup {DictUpdate(hit, w) : w \in ScratchOutputs}

\* the result sets a strategy call can leave: it writes on the hits it chooses
RECURSIVE StrategyResults(_)
StrategyResults(hs) ==
    IF hs = <<>>
    THEN {<<>>}
    ELSE {<<t>> \o r : t \in Touched(Head(hs)), r \in StrategyResults(Tail(hs))}

StrategyErrors == {"OSError", "RuntimeError"}

-----------------------------------------------------------------------------
(* rerank_search_results *)

\* variant: the guard's answer is ignored
after_guard_no_skip(g) == "dispatch"

\* lines 24-25: skip reranking if the results do not contain the field
after_guard(g) == IF ~g THEN "returned" ELSE "dispatch"

\* variant: the match is case sensitive
is_owl_case_sensitive(name) == Contains(<<"o", "w", "l">>, name)

\* line 27: 'owl' in model_name.lower()
is_owl(name) == Contains(<<"o", "w", "l">>, lower(name))

\* line 29: searchable_attributes in (None, [], (), '')
owl_attributes_missing(attributes) ==
    attributes \in {PyNone, PyList(<<>>), PyTuple(<<>>), PyStr(<<>>)}

\* variant: cleanup runs whatever the flag
should_cleanup_always(flag) == TRUE

\* variant: the flag is read the wrong way round
should_cleanup_inverted(flag) == ~flag

\* line 38: if overwrite_original_scores_highlights
should_cleanup(flag) == flag

\* variant: the strategy call sits in try/finally with the cleanup
strategy_failure_cleanup(left, e, flag) ==
    [hits |-> IF flag THEN cleanup_final_reranked_results(left) ELSE left,
     err |-> e,
     cleanups |-> IF flag THEN 1 ELSE 0]

\* lines 32-36: no handler around the strategy call, its error leaves the
\* function at once with the hits as the strategy left them
strategy_failure(left, e, flag) == [hits |-> left, err |-> e, cleanups |-> 0]

\* result sets as the retrieval stage hands them over: document fields, the
\* canonical score and highlights, and possibly scratch fields left by an
\* earlier call that did not overwrite
StaleScratch ==
    DictJoin([f \in {reranker_score} |-> "0.9"], [f \in {reranked_id} |-> "x1"])

Canonical ==
    DictJoin([f \in {original_score} |-> "0.5"], [f \in {highlights} |-> "old"])

RerankHits ==
    {DictJoin(u, m) : u \in DictsOver(UserFields, UserValues),
                      m \in {EmptyDict, Canonical, DictJoin(Canonical, StaleScratch)}}

Init ==
    /\ \E k \in 0..MaxHits : search_result \in HitLists(RerankHits, k)
    /\ NoCall

\* lines 7-25: entry, and the applicability guard
Call(name, attributes, flag) ==
    /\ pc = "idle"
    /\ model_name' = name
    /\ searchable_attributes' = attributes
    /\ overwrite' = flag
    /\ guard' = _check_searchable_fields_in_results(search_result, attributes)
    /\ pc' = after_guard(guard')
    /\ ret' = IF pc' = "returned" THEN "search_result" ELSE ret
    /\ UNCHANGED <<search_result, entry, before_cleanup, strategy, invoked,
                   after_strategy, thrown, err, cleaned>>

\* lines 27-35: choice and construction of the reranker
Dispatch ==
    /\ pc = "dispatch"
    /\ IF is_owl(model_name)
       THEN IF owl_attributes_missing(searchable_attributes)
            THEN /\ err' = "RerankerError"
                 /\ pc' = "raised"
                 /\ UNCHANGED strategy
            ELSE /\ strategy' = "ReRankerOwl"
                 /\ pc' = "strategy"
                 /\ UNCHANGED err
       ELSE /\ strategy' = "ReRankerText"
            /\ pc' = "strategy"
            /\ UNCHANGED err
    /\ UNCHANGED <<search_result, entry, before_cleanup, model_name, searchable_attributes,
                   overwrite, guard, invoked, after_strategy, thrown, ret, cleaned>>

\* lines 33, 36: reranker.rerank(...) returns
StrategyReturns ==
    /\ pc = "strategy"
    /\ \E left \in StrategyResults(search_result) :
        /\ search_result' = left
        /\ after_strategy' = left
    /\ invoked' = Append(invoked, strategy)
    /\ pc' = "finish"
    /\ UNCHANGED <<entry, before_cleanup, model_name, searchable_attributes, overwrite,
                   guard, strategy, thrown, err, ret, cleaned>>

\* lines 33, 36: reranker.rerank(...) raises
StrategyRaises ==
    /\ pc = "strategy"
    /\ \E left \in StrategyResults(search_result), e \in StrategyErrors :
        LET out == strategy_failure(left, e, overwrite)
        IN  /\ after_strategy' = left
            /\ thrown' = e
            /\ search_result' = out.hits
            /\ err' = out.err
            /\ cleaned' = cleaned + out.cleanups
    /\ invoked' = Append(invoked, strategy)
    /\ pc' = "raised"
    /\ UNCHANGED <<entry, before_cleanup, model_name, searchable_attributes, overwrite,
                   guard, strategy, ret>>

\* lines 38-39: the optional cleanup, and the end of the function
Finish ==
    /\ pc = "finish"
    /\ IF should_cleanup(overwrite)
       THEN /\ before_cleanup' = search_result
            /\ search_result' = cleanup_final_reranked_results(search_result)
            /\ cleaned' = cleaned + 1
       ELSE UNCHANGED <<before_cleanup, search_result, cleaned>>
    /\ ret' = "None"
    /\ pc' = "returned"
    /\ UNCHANGED <<entry, model_name, searchable_attributes, overwrite, guard, strategy,
                   invoked, after_strategy, thrown, err>>

Next ==
    \/ \E name \in ModelNames, attributes \in SearchableAttributes, flag \in BOOLEAN :
            Call(name, attributes, flag)
    \/ Dispatch
    \/ StrategyReturns
    \/ StrategyRaises
    \/ Finish

Spec == Init /\ [][Next]_vars

-----------------------------------------------------------------------------
(* Properties of cleanup_final_reranked_results, under SpecCleanup *)

HitRange == 1..Len(search_result)

\* C1: after cleanup_final_reranked_results has returned, no hit of the result
\* set contains reranker_score, highlights_reranked or reranked_id, whatever
\* subset of them each hit carried before.
C1_NoScratchAfterCleanup ==
    cleaned >= 1 =>
        \A i \in HitRange : (DOMAIN search_result[i]) \cap ScratchFields = {}

C1_Witness ==
    /\ cleaned = 1
    /\ Len(before_cleanup) = 2
    /\ ScratchFields \subseteq DOMAIN before_cleanup[1]
    /\ (DOMAIN before_cleanup[2]) \cap ScratchFields = {reranked_id}

\* the canonical field f of hit i is the same (absent, or present with the
\* same value) after the last cleanup as before it
SameField(i, f) ==
    /\ (f \in DOMAIN search_result[i]) <=> (f \in DOMAIN before_cleanup[i])
    /\ f \in DOMAIN before_cleanup[i] => search_result[i][f] = before_cleanup[i][f]

\* C2: a hit that lacks reranker_score keeps its original_score (absent, or
\* present with the same value) through cleanup, and a hit that lacks
\* highlights_reranked keeps its highlights, each whatever the other field
\* and the other hits hold.
C2_UntouchedHitsKeepData ==
    cleaned >= 1 =>
        /\ Len(search_result) = Len(before_cleanup)
        /\ \A i \in HitRange :
            /\ reranker_score \notin DOMAIN before_cleanup[i] => SameField(i, original_score)
            /\ highlights_reranked \notin DOMAIN before_cleanup[i] => SameField(i, highlights)

C2_Witness ==
    /\ cleaned = 1
    /\ Len(before_cleanup) = 2
    /\ reranker_score \notin DOMAIN before_cleanup[1]
    /\ highlights_reranked \in DOMAIN before_cleanup[1]
    /\ original_score \in DOMAIN before_cleanup[1]
    /\ highlights_reranked \notin DOMAIN before_cleanup[2]
    /\ reranker_score \in DOMAIN before_cleanup[2]
    /\ highlights \in DOMAIN before_cleanup[2]

\* C3: a second cleanup in succession changes no hit: the result set after
\* two calls equals the result set after one.
C3_CleanupIdempotent ==
    cleaned >= 2 => search_result = before_cleanup

C3_Witness ==
    /\ cleaned = 2
    /\ before_cleanup # entry
    /\ \E i \in 1..Len(entry) :
        {original_score, reranker_score, highlights, highlights_reranked, reranked_id}
            \subseteq DOMAIN entry[i]

\* C4: a hit with reranker_score = v before cleanup has original_score = v
\* after it, a hit with highlights_reranked = h has highlights = h after it,
\* and the value of reranked_id is on no field of the hit afterwards.
C4_ScratchPromoted ==
    cleaned >= 1 =>
        \A i \in HitRange :
            /\ reranker_score \in DOMAIN before_cleanup[i] =>
                  /\ original_score \in DOMAIN search_result[i]
                  /\ search_result[i][original_score] = before_cleanup[i][reranker_score]
            /\ highlights_reranked \in DOMAIN before_cleanup[i] =>
                  /\ highlights \in DOMAIN search_result[i]
                  /\ search_result[i][highlights] = before_cleanup[i][highlights_reranked]
            /\ reranked_id \in DOMAIN before_cleanup[i] =>
                  /\ reranked_id \notin DOMAIN search_result[i]
                  /\ \A f \in DOMAIN search_result[i] :
                        search_result[i][f] # before_cleanup[i][reranked_id]

C4_Witness ==
    /\ cleaned = 1
    /\ \E i \in 1..Len(before_cleanup) :
        /\ {original_score, reranker_score, reranked_id} \subseteq DOMAIN before_cleanup[i]
        /\ before_cleanup[i][original_score] # before_cleanup[i][reranker_score]
    /\ \E i \in 1..Len(before_cleanup) :
        /\ {highlights, highlights_reranked} \subseteq DOMAIN before_cleanup[i]
        /\ before_cleanup[i][highlights] # before_cleanup[i][highlights_reranked]
    /\ \E i \in 1..Len(before_cleanup) :
        /\ reranker_score \in DOMAIN before_cleanup[i]
        /\ original_score \notin DOMAIN before_cleanup[i]

-----------------------------------------------------------------------------
(* Properties of rerank_search_results, under Spec *)

OwlToken == <<"o", "w", "l">>

EmptyAttributes == {PyNone, PyList(<<>>), PyTuple(<<>>), PyStr(<<>>)}

\* some hit of the entry result set has some listed name as a key
SomeHitHasSomeField ==
    \E i \in 1..Len(entry), k \in 1..Len(searchable_attributes.items) :
        searchable_attributes.items[k] \in DOMAIN entry[i]

\* C5: the guard answers true for searchable_fields = None on any result set,
\* also one without hits, and for a non-empty list of names it answers true
\* exactly when at least one hit has at least one listed name as a key.
C5_GuardCorrect ==
    pc # "idle" =>
        /\ searchable_attributes = PyNone => guard
        /\ (searchable_attributes.kind = "list" /\ searchable_attributes.items # <<>>)
              => (guard <=> SomeHitHasSomeField)

C5_Witness ==
    /\ pc # "idle"
    /\ searchable_attributes = PyList(<<"title", "price">>)
    /\ guard
    /\ Len(entry) = 2
    /\ UserFields \cap DOMAIN entry[1] = {}
    /\ UserFields \cap DOMAIN entry[2] = {"price"}

\* C6: when the guard answers false the call returns at once: no strategy is
\* constructed or invoked, cleanup does not run, no error is raised, and the
\* result set is as it was on entry, for any model name and either flag.
C6_GuardRejectSkips ==
    (pc # "idle" /\ ~guard) =>
        /\ pc = "returned"
        /\ strategy = "none"
        /\ invoked = <<>>
        /\ cleaned = 0
        /\ err = "none"
        /\ search_result = entry

C6_Witness ==
    /\ pc = "returned"
    /\ ~guard
    /\ overwrite
    /\ Contains(OwlToken, lower(model_name))
    /\ searchable_attributes = PyList(<<"price">>)
    /\ Len(entry) = 2
    /\ \E i \in 1..2 : ScratchFields \cap DOMAIN entry[i] # {}

\* C7: a call whose model name contains 'owl' and whose searchable_fields is
\* None, [], () or "" ends with RerankerError, with no hit changed and no
\* strategy invoked.
C7_OwlPreconditionRaises ==
    (/\ pc \notin {"idle", "dispatch"}
     /\ Contains(OwlToken, lower(model_name))
     /\ searchable_attributes \in EmptyAttributes) =>
        /\ pc = "raised"
        /\ err = "RerankerError"
        /\ invoked = <<>>
        /\ search_result = entry

\* C8: a call that passes the guard and the Owl precondition invokes exactly
\* one strategy, once: ReRankerOwl if the lower-cased model name contains
\* 'owl', ReRankerText for every other name.
C8_StrategySelection ==
    (guard /\ pc \notin {"idle", "dispatch"} /\ err # "RerankerError") =>
        /\ strategy = IF Contains(OwlToken, lower(model_name))
                      THEN "ReRankerOwl" ELSE "ReRankerText"
        /\ pc = "strategy" => invoked = <<>>
        /\ pc # "strategy" => invoked = <<strategy>>

C8_Witness ==
    /\ pc = "returned"
    /\ model_name = <<"x", "O", "w", "L">>
    /\ invoked = <<"ReRankerOwl">>

\* C9: with the overwrite flag false and the strategy run, cleanup is skipped:
\* on return every hit is exactly as the strategy left it, scratch fields
\* included, original_score and highlights not replaced.
C9_NoOverwriteKeepsScratch ==
    (pc = "returned" /\ ~overwrite /\ invoked # <<>>) =>
        /\ cleaned = 0
        /\ search_result = after_strategy

C9_Witness ==
    /\ pc = "returned"
    /\ ~overwrite
    /\ invoked # <<>>
    /\ \E i \in 1..Len(entry) :
        /\ ScratchFields \cap DOMAIN entry[i] = {}
        /\ ScratchFields \subseteq DOMAIN search_result[i]
        /\ original_score \in DOMAIN search_result[i]
        /\ search_result[i][original_score] # search_result[i][reranker_score]

\* C10: when the invoked strategy raises, the call ends with that very error,
\* the strategy is not called again and cleanup does not run even with the
\* overwrite flag true: the hits stay as the strategy left them.
C10_StrategyErrorPropagates ==
    (pc = "raised" /\ thrown # "none") =>
        /\ err = thrown
        /\ Len(invoked) = 1
        /\ cleaned = 0
        /\ search_result = after_strategy
        /\ ret = "none"

C10_Witness ==
    /\ pc = "raised"
    /\ thrown = "OSError"
    /\ overwrite
    /\ Len(entry) = 2
    /\ ScratchFields \cap DOMAIN entry[1] = {}
    /\ ScratchFields \subseteq DOMAIN search_result[1]
    /\ search_result[2] = entry[2]

-----------------------------------------------------------------------------
(* Further properties of rerank_search_results and of cleanup *)

\* C11: a call with a model name that does not contain 'owl' and with
\* searchable_fields None or an empty list invokes the Text strategy on the
\* result set, whatever the result set.
C11_TextAcceptsEmptyAttributes ==
    (/\ pc \in {"finish", "returned", "raised"}
     /\ ~Contains(OwlToken, lower(model_name))
     /\ searchable_attributes \in {PyNone, PyList(<<>>)}) =>
        invoked = <<"ReRankerText">>

\* C12: a call that ends without error returns nothing, whether the strategy
\* ran or the guard rejected the result set.
C12_ReturnsNothing ==
    pc = "returned" => ret = "None"

CanonicalAndScratch ==
    {original_score, highlights, reranker_score, highlights_reranked, reranked_id}

\* C13: cleanup keeps the number of hits and their order, and on every hit
\* every field other than original_score, highlights and the three scratch
\* fields is present with the same value after cleanup exactly as before.
C13_CleanupFrame ==
    cleaned >= 1 =>
        /\ Len(search_result) = Len(before_cleanup)
        /\ \A i \in HitRange :
            /\ (DOMAIN search_result[i]) \ CanonicalAndScratch
                  = (DOMAIN before_cleanup[i]) \ CanonicalAndScratch
            /\ \A f \in (DOMAIN before_cleanup[i]) \ CanonicalAndScratch :
                  search_result[i][f] = before_cleanup[i][f]

C13_Witness ==
    /\ cleaned = 1
    /\ Len(before_cleanup) = 2
    /\ "title" \in DOMAIN before_cleanup[1]
    /\ ScratchFields \subseteq DOMAIN before_cleanup[1]
    /\ "title" \notin DOMAIN before_cleanup[2]
    /\ reranker_score \in DOMAIN before_cleanup[2]
    /\ search_result # before_cleanup

\* C14: within a call a strategy is invoked only once the guard has answered
\* true and, for an owl model, the attributes passed the precondition; cleanup
\* starts only after the strategy call has returned without error, only with
\* the overwrite flag true, and at most once.
C14_StepOrder ==
    [][ /\ invoked' # invoked =>
            /\ pc = "strategy"
            /\ guard
            /\ invoked = <<>>
            /\ Contains(OwlToken, lower(model_name))
                  => searchable_attributes \notin EmptyAttributes
        /\ cleaned' # cleaned =>
            /\ pc = "finish"
            /\ Len(invoked) = 1
            /\ thrown = "none"
            /\ err = "none"
            /\ overwrite
            /\ cleaned = 0
            /\ cleaned' = 1 ]_vars

C14_Witness ==
    /\ pc = "returned"
    /\ guard
    /\ invoked = <<"ReRankerOwl">>
    /\ cleaned = 1
    /\ search_result # after_strategy

NoScratch(hs) == \A i \in 1..Len(hs) : (DOMAIN hs[i]) \cap ScratchFields = {}

\* C15: a call with the overwrite flag true on a result set without scratch
\* fields, if it ends without error, returns a result set without scratch
\* fields, whether the guard rejected it or a strategy ran, and whichever
\* hits the strategy wrote on.
C15_EndToEndQuarantine ==
    (pc = "returned" /\ overwrite /\ NoScratch(entry)) => NoScratch(search_result)

C15_Witness ==
    /\ pc = "returned"
    /\ overwrite
    /\ NoScratch(entry)
    /\ invoked = <<"ReRankerText">>
    /\ Len(entry) = 2
    /\ after_strategy[1] = entry[1]
    /\ ScratchFields \subseteq DOMAIN after_strategy[2]

====
